---- MODULE Spec2Model ----
(***************************************************************************)
(* Paging simulator (sim_paging.h, sim_pag_fifo.c, sim_pag_lru.c).         *)
(*                                                                         *)
(* The state is the ssystem structure.  The two translation units define   *)
(* the same functions; `variant` says which of them is linked.  Functions  *)
(* of the source are operators from a system record to a system record,    *)
(* and every call of sim_mmu is one step of the model.                     *)
(*                                                                         *)
(* `unsigned` is modelled UBits wide (the clock, the timestamps and the    *)
(* addresses), so that the wrap of the clock is within reach; `int` is     *)
(* modelled wider than that, so unsigned -> int conversions keep the value *)
(* (in C a quotient above INT_MAX turns negative and is rejected by the    *)
(* same range test of sim_mmu).                                            *)
(***************************************************************************)
EXTENDS Integers, FiniteSets, Sequences, TLC

\* ---------------------------------------------------------------- bounds
UBits == 2
MaxPagsz == 2
MaxPags == 3
MaxFrames == 2
MaxCalls == 5        \* calls of sim_mmu
MaxVAddr == 2        \* the virtual addresses presented

UMax == 2^UBits - 1                  \* ~0U
ToUnsigned(x) == x % (UMax + 1)      \* conversion of an int to unsigned

Variants == {"FIFO", "LRU"}
Ops == {"R", "W"}
VAddrs == {a \in 0..MaxVAddr : a <= UMax}

VARIABLES
  variant,    \* which translation unit is linked: "FIFO" or "LRU"
  S,          \* the ssystem structure
  last,       \* the last call of sim_mmu: its arguments, path and result
  instAt,     \* history: the value of numpagefaults when a page was installed
  written,    \* history: the page got a 'W' reference since it was installed
  refAt,      \* history: the clock at the most recent reference to a page
  cnt,        \* history: the calls made, counted by their kind
  ub          \* "no", "oob" (an out-of-bounds access happened), "abort"

vars == <<variant, S, last, instAt, written, refAt, cnt, ub>>

Pages(T) == 0..(T.numpags - 1)
Frames(T) == 0..(T.numframes - 1)

\* spage after memset(.., 0, ..)
ZeroPage == [present |-> 0, frame |-> 0, modified |-> 0, referenced |-> 0, timestamp |-> 0]

\* What an access outside the tables can read: pgt[-1] lies in front of the
\* page table, its bytes are whatever the allocator keeps there.
Junk(T) == [frame : {-1, 0, T.numframes}, modified : {0, 1}, abort : BOOLEAN]

\* ------------------------------------------------------------ init_tables
\* Mutant: listfree starts at the first frame, not at the last.
init_tables_headfirst(T) ==
  [T EXCEPT
     !.pgt = [p \in Pages(T) |-> ZeroPage],
     !.lru = -1,
     !.clock = 0,
     !.frt = [f \in Frames(T) |->
                IF f < T.numframes - 1 THEN [page |-> -1, next |-> f + 1]
                                       ELSE [page |-> -1, next |-> 0]],
     !.listfree = 0,
     !.listoccupied = -1]

init_tables(T) ==
  [T EXCEPT
     !.pgt = [p \in Pages(T) |-> ZeroPage],
     !.lru = -1,
     !.clock = 0,
     !.frt = [f \in Frames(T) |->
                IF f < T.numframes - 1 THEN [page |-> -1, next |-> f + 1]
                                       ELSE [page |-> -1, next |-> 0]],
     !.listfree = T.numframes - 1,
     !.listoccupied = -1]

\* --------------------------------------------------------- reference_page
\* Mutant: a reference makes the frame of the page the newest of the list.
reference_page_fifo_touch(T, page, op) ==
  LET T1 == [T EXCEPT !.listoccupied = T.pgt[page].frame]
  IN  IF op = "R" THEN [T1 EXCEPT !.numrefsread = @ + 1]
      ELSE IF op = "W" THEN [T1 EXCEPT !.pgt[page].modified = 1,
                                       !.numrefswrite = @ + 1]
      ELSE T1

\* Mutant: a write is not counted.
reference_page_fifo_nowritecount(T, page, op) ==
  IF op = "R" THEN [T EXCEPT !.numrefsread = @ + 1]
  ELSE IF op = "W" THEN [T EXCEPT !.pgt[page].modified = 1]
  ELSE T

reference_page_fifo(T, page, op) ==
  IF op = "R" THEN [T EXCEPT !.numrefsread = @ + 1]
  ELSE IF op = "W" THEN [T EXCEPT !.pgt[page].modified = 1,
                                  !.numrefswrite = @ + 1]
  ELSE T

\* Mutant: the clock is incremented before it is stored as the timestamp.
reference_page_lru_late(T, page, op) ==
  LET T1 == IF op = "R" THEN [T EXCEPT !.numrefsread = @ + 1]
                        ELSE [T EXCEPT !.numrefswrite = @ + 1]
      T2 == IF op = "W" THEN [T1 EXCEPT !.pgt[page].modified = 1] ELSE T1
      T3 == [T2 EXCEPT !.clock = ToUnsigned(@ + 1)]
  IN  [T3 EXCEPT !.pgt[page].timestamp = T3.clock]

reference_page_lru(T, page, op) ==
  LET T1 == IF op = "R" THEN [T EXCEPT !.numrefsread = @ + 1]
                        ELSE [T EXCEPT !.numrefswrite = @ + 1]
      T2 == IF op = "W" THEN [T1 EXCEPT !.pgt[page].modified = 1] ELSE T1
      T3 == [T2 EXCEPT !.pgt[page].timestamp = T2.clock]
  IN  [T3 EXCEPT !.clock = ToUnsigned(@ + 1)]

\* Mutant: the clock is tested against the maximum, not against 0.
ClockOverflowWarning_max(v, T) == v = "LRU" /\ T.clock = UMax

\* The warning of the LRU reference_page, printed when the clock it has just
\* incremented is 0; T is the system as reference_page leaves it.
ClockOverflowWarning(v, T) == v = "LRU" /\ T.clock = 0

reference_page(v, T, page, op) ==
  IF v = "FIFO" THEN reference_page_fifo(T, page, op)
                ELSE reference_page_lru(T, page, op)

\* --------------------------------------------- choose_page_to_be_replaced
\* Mutant: the frame listoccupied points to (the newest) is taken, not the
\* one after it.
choose_page_to_be_replaced_fifo_newest(T) ==
  T.frt[T.listoccupied].page

choose_page_to_be_replaced_fifo(T) ==
  LET victim_frame == T.frt[T.listoccupied].next
  IN  T.frt[victim_frame].page

\* The loop of the LRU variant, from index i on, with the victim and the
\* minimum found so far.
RECURSIVE lru_scan(_, _, _, _)
lru_scan(T, i, victim, min_timestamp) ==
  IF i >= T.numpags THEN victim
  ELSE IF T.pgt[i].present # 0 /\ T.pgt[i].timestamp < min_timestamp
       THEN lru_scan(T, i + 1, i, T.pgt[i].timestamp)
       ELSE lru_scan(T, i + 1, victim, min_timestamp)

choose_page_to_be_replaced_lru(T) == lru_scan(T, 0, -1, UMax)

choose_page_to_be_replaced(v, T) ==
  IF v = "FIFO" THEN choose_page_to_be_replaced_fifo(T)
                ELSE choose_page_to_be_replaced_lru(T)

\* ----------------------------------------------------------- replace_page
\* Mutant: the frame of the victim is marked free, not given the new page.
replace_page_fifo_release(T, victim, newpage) ==
  LET frame == T.pgt[victim].frame
      T1 == IF T.pgt[victim].modified # 0
              THEN [T EXCEPT !.numpgwriteback = @ + 1] ELSE T
      T2 == [T1 EXCEPT !.pgt[victim].present = 0,
                       !.pgt[victim].frame = -1,
                       !.pgt[victim].modified = 0]
      T3 == [T2 EXCEPT !.pgt[newpage].present = 1,
                       !.pgt[newpage].frame = frame,
                       !.pgt[newpage].modified = 0,
                       !.pgt[newpage].referenced = 0,
                       !.pgt[newpage].timestamp = 0]
  IN  [T3 EXCEPT !.frt[frame].page = -1,
                 !.listoccupied = frame]

replace_page_fifo(T, victim, newpage) ==
  LET frame == T.pgt[victim].frame
      T1 == IF T.pgt[victim].modified # 0
              THEN [T EXCEPT !.numpgwriteback = @ + 1] ELSE T
      T2 == [T1 EXCEPT !.pgt[victim].present = 0,
                       !.pgt[victim].frame = -1,
                       !.pgt[victim].modified = 0]
      T3 == [T2 EXCEPT !.pgt[newpage].present = 1,
                       !.pgt[newpage].frame = frame,
                       !.pgt[newpage].modified = 0,
                       !.pgt[newpage].referenced = 0,
                       !.pgt[newpage].timestamp = 0]
  IN  [T3 EXCEPT !.frt[frame].page = newpage,
                 !.listoccupied = frame]

\* The LRU variant is reached with victim = -1 when the scan finds no
\* candidate.  Reads of pgt[-1] then give junk; writes to pgt[-1] and to
\* frt[frame] with frame outside the frame table land outside the tables.
\* Mutant: the new page keeps whatever modified flag its entry held.
replace_page_lru_keepmodified(T, victim, newpage, junk) ==
  LET inpgt == victim \in Pages(T)
      frame == IF inpgt THEN T.pgt[victim].frame ELSE junk.frame
      modified == IF inpgt THEN T.pgt[victim].modified ELSE junk.modified
      T1 == IF modified # 0 THEN [T EXCEPT !.numpgwriteback = @ + 1] ELSE T
      T2 == IF inpgt THEN [T1 EXCEPT !.pgt[victim].present = 0] ELSE T1
      T3 == [T2 EXCEPT !.pgt[newpage].present = 1,
                       !.pgt[newpage].frame = frame]
  IN  IF frame \in Frames(T) THEN [T3 EXCEPT !.frt[frame].page = newpage]
                             ELSE T3

replace_page_lru(T, victim, newpage, junk) ==
  LET inpgt == victim \in Pages(T)
      frame == IF inpgt THEN T.pgt[victim].frame ELSE junk.frame
      modified == IF inpgt THEN T.pgt[victim].modified ELSE junk.modified
      T1 == IF modified # 0 THEN [T EXCEPT !.numpgwriteback = @ + 1] ELSE T
      T2 == IF inpgt THEN [T1 EXCEPT !.pgt[victim].present = 0] ELSE T1
      T3 == [T2 EXCEPT !.pgt[newpage].present = 1,
                       !.pgt[newpage].frame = frame,
                       !.pgt[newpage].modified = 0]
  IN  IF frame \in Frames(T) THEN [T3 EXCEPT !.frt[frame].page = newpage]
                             ELSE T3

replace_page(v, T, victim, newpage, junk) ==
  IF v = "FIFO" THEN replace_page_fifo(T, victim, newpage)
                ELSE replace_page_lru(T, victim, newpage, junk)

\* ------------------------------------------------------ occupy_free_frame
\* Mutant: a frame linked into a non-empty list does not become its tail.
occupy_free_frame_fifo_notail(T, frame, page) ==
  LET T1 == [T EXCEPT !.pgt[page].present = 1,
                      !.pgt[page].frame = frame,
                      !.pgt[page].modified = 0,
                      !.pgt[page].referenced = 0,
                      !.pgt[page].timestamp = 0,
                      !.frt[frame].page = page]
  IN  IF T1.listoccupied = -1
        THEN [T1 EXCEPT !.frt[frame].next = frame,
                        !.listoccupied = frame]
        ELSE LET T2 == [T1 EXCEPT !.frt[frame].next = T1.frt[T1.listoccupied].next]
             IN  [T2 EXCEPT !.frt[T2.listoccupied].next = frame]

occupy_free_frame_fifo(T, frame, page) ==
  LET T1 == [T EXCEPT !.pgt[page].present = 1,
                      !.pgt[page].frame = frame,
                      !.pgt[page].modified = 0,
                      !.pgt[page].referenced = 0,
                      !.pgt[page].timestamp = 0,
                      !.frt[frame].page = page]
  IN  IF T1.listoccupied = -1
        THEN [T1 EXCEPT !.frt[frame].next = frame,
                        !.listoccupied = frame]
        ELSE LET T2 == [T1 EXCEPT !.frt[frame].next = T1.frt[T1.listoccupied].next]
                 T3 == [T2 EXCEPT !.frt[T2.listoccupied].next = frame]
             IN  [T3 EXCEPT !.listoccupied = frame]

occupy_free_frame_lru(T, frame, page) ==
  [T EXCEPT !.pgt[page].present = 1,
            !.pgt[page].frame = frame,
            !.pgt[page].modified = 0,
            !.pgt[page].referenced = 0,
            !.pgt[page].timestamp = 0,
            !.frt[frame].page = page]

occupy_free_frame(v, T, frame, page) ==
  IF v = "FIFO" THEN occupy_free_frame_fifo(T, frame, page)
                ELSE occupy_free_frame_lru(T, frame, page)

\* ------------------------------------------------------ handle_page_fault
\* Mutant: the last free frame is handed out without emptying the free list.
handle_page_fault_keepfree(v, T, virtual_addr, junk) ==
  LET T0 == [T EXCEPT !.numpagefaults = @ + 1]
      page == virtual_addr \div T.pagsz
  IN  IF T0.listfree # -1
        THEN LET lastf == T0.listfree
                 frame == T0.frt[lastf].next
                 T1 == [T0 EXCEPT !.frt[lastf].next = T0.frt[frame].next]
             IN  occupy_free_frame(v, T1, frame, page)
        ELSE LET victim == choose_page_to_be_replaced(v, T0)
             IN  replace_page(v, T0, victim, page, junk)

\* The same text in both translation units (and in the header).
handle_page_fault(v, T, virtual_addr, junk) ==
  LET T0 == [T EXCEPT !.numpagefaults = @ + 1]
      page == virtual_addr \div T.pagsz
  IN  IF T0.listfree # -1
        THEN LET lastf == T0.listfree
                 frame == T0.frt[lastf].next
                 T1 == IF frame = lastf
                         THEN [T0 EXCEPT !.listfree = -1]
                         ELSE [T0 EXCEPT !.frt[lastf].next = T0.frt[frame].next]
             IN  occupy_free_frame(v, T1, frame, page)
        ELSE LET victim == choose_page_to_be_replaced(v, T0)
             IN  replace_page(v, T0, victim, page, junk)

\* ---------------------------------------------------------------- sim_mmu
Sentinel == UMax     \* ~0U

IllegalPage(T, page) == page < 0 \/ page >= T.numpags

\* Mutant: the fault is counted before the range of the page is tested.
sim_mmu_latecheck(v, T, virtual_addr, op, junk) ==
  LET page == virtual_addr \div T.pagsz
      offset == virtual_addr % T.pagsz
  IN  IF IllegalPage(T, page)
        THEN [sys |-> [T EXCEPT !.numillegalrefs = @ + 1,
                                !.numpagefaults = @ + 1],
              ret |-> Sentinel]
        ELSE LET T1 == IF T.pgt[page].present = 0
                         THEN handle_page_fault(v, T, virtual_addr, junk)
                         ELSE T
                 frame == T1.pgt[page].frame
                 physical_addr == ToUnsigned(frame * T1.pagsz + offset)
             IN  [sys |-> reference_page(v, T1, page, op), ret |-> physical_addr]

\* Mutant: the page fault handler is entered without testing `present`.
sim_mmu_alwaysfault(v, T, virtual_addr, op, junk) ==
  LET page == virtual_addr \div T.pagsz
      offset == virtual_addr % T.pagsz
  IN  IF IllegalPage(T, page)
        THEN [sys |-> [T EXCEPT !.numillegalrefs = @ + 1], ret |-> Sentinel]
        ELSE LET T1 == handle_page_fault(v, T, virtual_addr, junk)
                 frame == T1.pgt[page].frame
                 physical_addr == ToUnsigned(frame * T1.pagsz + offset)
             IN  [sys |-> reference_page(v, T1, page, op), ret |-> physical_addr]

\* The result: the system afterwards and the value returned.
sim_mmu(v, T, virtual_addr, op, junk) ==
  LET page == virtual_addr \div T.pagsz
      offset == virtual_addr % T.pagsz
  IN  IF IllegalPage(T, page)
        THEN [sys |-> [T EXCEPT !.numillegalrefs = @ + 1], ret |-> Sentinel]
        ELSE LET T1 == IF T.pgt[page].present = 0
                         THEN handle_page_fault(v, T, virtual_addr, junk)
                         ELSE T
                 frame == T1.pgt[page].frame
                 physical_addr == ToUnsigned(frame * T1.pagsz + offset)
             IN  [sys |-> reference_page(v, T1, page, op), ret |-> physical_addr]

\* The structure as the driver hands it to init_tables: sizes set, tables
\* allocated, counters zero.
NewSystem(sz, np, nf) ==
  [pagsz |-> sz, numpags |-> np, numframes |-> nf,
   pgt |-> [p \in 0..(np - 1) |-> ZeroPage],
   frt |-> [f \in 0..(nf - 1) |-> [page |-> 0, next |-> 0]],
   lru |-> 0, clock |-> 0, listfree |-> 0, listoccupied |-> 0,
   numrefsread |-> 0, numrefswrite |-> 0, numpagefaults |-> 0,
   numpgwriteback |-> 0, numillegalrefs |-> 0]

\* The configurations: page size, pages, frames.  A page above the addresses
\* presented is never referenced, so the page table is kept within them
\* (one page may reach beyond).
Configs == {c \in (1..MaxPagsz) \X (1..MaxPags) \X (1..MaxFrames) :
              c[1] * (c[2] - 1) <= MaxVAddr}

NoCall == [kind |-> "init", va |-> 0, ret |-> 0, page |-> -1,
           victim |-> -1, frame |-> -1, same |-> FALSE, warned |-> FALSE]

\* No call counted yet: reads, writes and illegal references that returned,
\* calls that began with an in-range page not present, calls that returned.
NoCalls == [r |-> 0, w |-> 0, ill |-> 0, flt |-> 0, calls |-> 0]

Init ==
  /\ variant \in Variants
  /\ \E c \in Configs : S = init_tables(NewSystem(c[1], c[2], c[3]))
  /\ last = NoCall
  /\ instAt = [p \in Pages(S) |-> 0]
  /\ written = [p \in Pages(S) |-> FALSE]
  /\ refAt = [p \in Pages(S) |-> 0]
  /\ cnt = NoCalls
  /\ ub = "no"

\* ------------------------------------------------------------------ steps
NoJunk == [frame |-> 0, modified |-> 0, abort |-> FALSE]

PageOf(T, va) == va \div T.pagsz
IsIllegal(T, va) == IllegalPage(T, PageOf(T, va))
IsHit(T, va) == ~IsIllegal(T, va) /\ T.pgt[PageOf(T, va)].present # 0
IsFault(T, va) == ~IsIllegal(T, va) /\ T.pgt[PageOf(T, va)].present = 0

\* The page fault of this call evicts, and the eviction reaches outside the
\* tables: pgt[victim] with victim = -1, or frt[frame] with a frame that is
\* no index of the frame table.
OutOfBounds(v, T, va) ==
  /\ IsFault(T, va)
  /\ T.listfree = -1
  /\ LET victim == choose_page_to_be_replaced(v, T)
     IN  IF victim \in Pages(T) THEN T.pgt[victim].frame \notin Frames(T)
                                 ELSE TRUE

Running == ub # "abort"
CanCall == /\ Running
           /\ S.numrefsread + S.numrefswrite + S.numillegalrefs < MaxCalls

\* History: the call repeats the address of the call before it, which was
\* in range and returned.
SameAsLast(va) == last.kind \in {"hit", "free", "evict"} /\ last.va = va

\* One call of sim_mmu that returns.
Call(va, op, junk, kind) ==
  \E r \in {sim_mmu(variant, S, va, op, junk)},
     page \in {PageOf(S, va)},
     victim \in {IF kind = "evict" THEN choose_page_to_be_replaced(variant, S)
                                   ELSE -1} :
      /\ S' = r.sys
      /\ last' = [kind |-> kind, va |-> va, ret |-> r.ret,
                  page |-> page, victim |-> victim,
                  frame |-> IF kind = "illegal" THEN -1
                                                ELSE r.sys.pgt[page].frame,
                  same |-> SameAsLast(va),
                  warned |-> kind # "illegal" /\ ClockOverflowWarning(variant, r.sys)]
      /\ refAt' = IF kind = "illegal" THEN refAt
                                      ELSE [refAt EXCEPT ![page] = S.clock]
      /\ cnt' = [r |-> cnt.r + (IF kind # "illegal" /\ op = "R" THEN 1 ELSE 0),
                 w |-> cnt.w + (IF kind # "illegal" /\ op = "W" THEN 1 ELSE 0),
                 ill |-> cnt.ill + (IF kind = "illegal" THEN 1 ELSE 0),
                 flt |-> cnt.flt + (IF kind \in {"free", "evict"} THEN 1 ELSE 0),
                 calls |-> cnt.calls + 1]
      /\ instAt' = IF kind \in {"free", "evict"}
                     THEN [instAt EXCEPT ![page] = r.sys.numpagefaults]
                     ELSE instAt
      /\ written' = IF kind = "illegal" THEN written
                    ELSE IF kind = "hit"
                      THEN [written EXCEPT ![page] = @ \/ (op = "W")]
                      ELSE [q \in Pages(S) |->
                              IF q = page THEN op = "W"
                              ELSE IF q = victim THEN FALSE
                              ELSE written[q]]
      /\ UNCHANGED variant

MmuIllegal ==
  \E va \in VAddrs, op \in Ops :
     /\ CanCall /\ IsIllegal(S, va)
     /\ Call(va, op, NoJunk, "illegal")
     /\ UNCHANGED ub

MmuHit ==
  \E va \in VAddrs, op \in Ops :
     /\ CanCall /\ IsHit(S, va)
     /\ Call(va, op, NoJunk, "hit")
     /\ UNCHANGED ub

MmuFaultFree ==
  \E va \in VAddrs, op \in Ops :
     /\ CanCall /\ IsFault(S, va) /\ S.listfree # -1
     /\ Call(va, op, NoJunk, "free")
     /\ UNCHANGED ub

MmuFaultEvict ==
  \E va \in VAddrs, op \in Ops :
     /\ CanCall /\ IsFault(S, va) /\ S.listfree = -1
     /\ ~OutOfBounds(variant, S, va)
     /\ Call(va, op, NoJunk, "evict")
     /\ UNCHANGED ub

\* The eviction reaches outside the tables and the process goes on with
\* what it read there.
MmuFaultJunk ==
  \E va \in VAddrs, op \in Ops :
     /\ CanCall /\ OutOfBounds(variant, S, va)
     /\ \E junk \in Junk(S) : ~junk.abort /\ Call(va, op, junk, "evict")
     /\ ub' = "oob"

\* The eviction reaches outside the tables and the process dies there,
\* after handle_page_fault has counted the fault.
MmuFaultAbort ==
  \E va \in VAddrs, op \in Ops :
     /\ CanCall /\ OutOfBounds(variant, S, va)
     /\ \E junk \in Junk(S) : junk.abort
     /\ S' = [S EXCEPT !.numpagefaults = @ + 1]
     /\ last' = [kind |-> "abort", va |-> va, ret |-> -1,
                 page |-> PageOf(S, va),
                 victim |-> choose_page_to_be_replaced(variant, S),
                 frame |-> -1, same |-> SameAsLast(va), warned |-> FALSE]
     /\ cnt' = [r |-> cnt.r + (IF op = "R" THEN 1 ELSE 0),
                w |-> cnt.w + (IF op = "W" THEN 1 ELSE 0),
                ill |-> cnt.ill,
                flt |-> cnt.flt + 1,
                calls |-> cnt.calls + 1]
     /\ ub' = "abort"
     /\ UNCHANGED <<variant, instAt, written, refAt>>

Next == \/ MmuIllegal
        \/ MmuHit
        \/ MmuFaultFree
        \/ MmuFaultEvict
        \/ MmuFaultJunk
        \/ MmuFaultAbort

Spec == Init /\ [][Next]_vars

\* ------------------------------------------------------------- type check
TypeOK ==
  /\ variant \in Variants
  /\ S.numpags \in 1..MaxPags /\ S.numframes \in 1..MaxFrames
  /\ S.pagsz \in 1..MaxPagsz
  /\ DOMAIN S.pgt = Pages(S) /\ DOMAIN S.frt = Frames(S)
  /\ S.clock \in 0..UMax
  /\ ub \in {"no", "oob", "abort"}


\* ---------------------------------------------------------------- helpers
Present(T, p) == T.pgt[p].present # 0
PresentPages(T) == {p \in Pages(T) : Present(T, p)}
FramesOf(T, p) == {f \in Frames(T) : T.frt[f].page = p}
Occupied(T) == {f \in Frames(T) : T.frt[f].page # -1}

\* The frames of the circular list that `tail` points to.
RECURSIVE Ring(_, _, _)
Ring(T, cur, acc) ==
  IF cur \in acc THEN acc ELSE Ring(T, T.frt[cur].next, acc \cup {cur})

ListOf(T, tail) == IF tail = -1 THEN {} ELSE Ring(T, tail, {})
FreeList(T) == ListOf(T, T.listfree)
OccupiedList(T) == ListOf(T, T.listoccupied)

\* The first n frames met from frame cur on along the next links.
RECURSIVE Walk(_, _, _)
Walk(T, cur, n) ==
  IF n = 0 THEN <<>> ELSE <<cur>> \o Walk(T, T.frt[cur].next, n - 1)

\* The occupied list from the frame after listoccupied round to listoccupied.
OccupiedOrder(T) ==
  IF T.listoccupied = -1 THEN <<>>
  ELSE Walk(T, T.frt[T.listoccupied].next, Cardinality(Occupied(T)))

\* A step of the model is a call of sim_mmu with address last'.va.
CallStep == S' # S
Returned == last.kind \in {"illegal", "hit", "free", "evict"}
ReturnedNext == last'.kind \in {"illegal", "hit", "free", "evict"}
\* The pages a step removes from memory.
Evicted == {p \in Pages(S) : Present(S, p) /\ ~Present(S', p)}

\* ----------------------------------------------------------------- claims

\* C1: every fault on an in-range, absent page resolves: the call returns, a
\* frame is taken from the free list or the page chosen by
\* choose_page_to_be_replaced is an in-range page that is present, and
\* afterwards the requested page is present in a frame of [0, numframes).
\* Stated for both variants, also after the LRU clock has wrapped.
C1_FaultResolves ==
  [][(CallStep /\ IsFault(S, last'.va)) =>
       LET page == PageOf(S, last'.va)
           victim == choose_page_to_be_replaced(variant, S)
       IN  /\ ReturnedNext
           /\ S.listfree = -1 => (victim \in Pages(S) /\ Present(S, victim))
           /\ Present(S', page)
           /\ S'.pgt[page].frame \in Frames(S')]_vars

\* C2: a page is present iff exactly one frame holds it, that frame is the
\* one its page-table entry names, and no two present pages share a frame.
C2_PresentIffOneFrame ==
  /\ \A p \in Pages(S) :
        Present(S, p) <=> /\ Cardinality(FramesOf(S, p)) = 1
                          /\ \A f \in FramesOf(S, p) : S.pgt[p].frame = f
  /\ \A p, q \in PresentPages(S) : S.pgt[p].frame = S.pgt[q].frame => p = q

\* C3: every frame is in exactly one of the free list and the occupied set
\* (in FIFO the list of listoccupied): they are disjoint and their sizes add
\* up to numframes.
C3_FramePartition ==
  /\ FreeList(S) \cap Occupied(S) = {}
  /\ FreeList(S) \cup Occupied(S) = Frames(S)
  /\ Cardinality(FreeList(S)) + Cardinality(Occupied(S)) = S.numframes
  /\ variant = "FIFO" => OccupiedList(S) = Occupied(S)

\* C3 witness: FIFO with two frames, after the free list has run empty and a
\* page has been evicted.
C3_Witness ==
  /\ variant = "FIFO" /\ S.numframes = 2
  /\ last.kind = "evict" /\ S.numpagefaults >= 4
  /\ Occupied(S) = Frames(S)

\* C4: a call with an out-of-range page returns the sentinel, adds exactly 1
\* to numillegalrefs and changes nothing else of the system.
C4_IllegalReference ==
  [][(CallStep /\ PageOf(S, last'.va) \notin 0..(S.numpags - 1)) =>
       /\ last'.ret = UMax
       /\ S'.numillegalrefs = S.numillegalrefs + 1
       /\ S' = [S EXCEPT !.numillegalrefs = S'.numillegalrefs]]_vars

C4_Witness ==
  /\ last.kind = "illegal" /\ last.ret = UMax
  /\ S.numillegalrefs = 1
  /\ PresentPages(S) # {} /\ S.numrefswrite > 0

\* C5: a call with an in-range address returns frame * pagsz + offset for the
\* frame that holds the page at return, which is below numframes * pagsz and,
\* when that product fits the unsigned range, is not the sentinel.
C5_PhysicalAddress ==
  (last.kind \in {"hit", "free", "evict"} /\ S.numframes * S.pagsz <= UMax) =>
     LET page == last.va \div S.pagsz
         offset == last.va % S.pagsz
     IN  /\ \E f \in FramesOf(S, page) : last.ret = f * S.pagsz + offset
         /\ last.ret < S.numframes * S.pagsz
         /\ last.ret # UMax


\* C6: in FIFO a fault with no free frame evicts the present page that was
\* installed earliest, whatever was referenced since (2 frames, R0 R1 R2:
\* 3 faults, page 0 evicted, the frames hold pages 1 and 2).
C6_FifoEvictsOldest ==
  [][(variant = "FIFO" /\ CallStep /\ IsFault(S, last'.va) /\ S.listfree = -1) =>
       \E v \in PresentPages(S) :
          /\ \A q \in PresentPages(S) : instAt[v] <= instAt[q]
          /\ Evicted = {v}]_vars

\* C6 witness: the scenario of the specification, 2 frames and R0, R1, R2.
C6_Witness ==
  /\ variant = "FIFO" /\ S.numframes = 2 /\ S.pagsz = 1 /\ S.numpags = 3
  /\ S.numrefsread = 3 /\ S.numrefswrite = 0 /\ S.numillegalrefs = 0
  /\ S.numpagefaults = 3
  /\ last.kind = "evict" /\ last.victim = 0
  /\ ~Present(S, 0)
  /\ {S.frt[f].page : f \in Frames(S)} = {1, 2}

\* C7: in LRU, when a fault finds no free frame, choose_page_to_be_replaced
\* returns the present page of minimum timestamp, the lowest index among
\* equals.
C7_LruMinTimestamp ==
  (variant = "LRU" /\ S.listfree = -1 /\ PresentPages(S) # Pages(S)) =>
     LET v == choose_page_to_be_replaced_lru(S)
     IN  /\ v \in PresentPages(S)
         /\ \A q \in PresentPages(S) :
               \/ S.pgt[v].timestamp < S.pgt[q].timestamp
               \/ S.pgt[v].timestamp = S.pgt[q].timestamp /\ v <= q

\* C8: a call that repeats the in-range address of the call before it
\* returns the same physical address and leaves numpagefaults,
\* numpgwriteback, every present flag and every frame's page unchanged.
C8_Idempotent ==
  [][(CallStep /\ last.kind \in {"hit", "free", "evict"} /\ last'.va = last.va) =>
       /\ ReturnedNext
       /\ last'.ret = last.ret
       /\ S'.numpagefaults = S.numpagefaults
       /\ S'.numpgwriteback = S.numpgwriteback
       /\ \A p \in Pages(S) : S'.pgt[p].present = S.pgt[p].present
       /\ \A f \in Frames(S) : S'.frt[f].page = S.frt[f].page]_vars

\* C8 witness: an address was translated again right after the call that
\* evicted a page to bring it in.
C8_Witness ==
  /\ last.same /\ last.kind = "hit"
  /\ S.numpagefaults > S.numframes
  /\ instAt[last.page] = S.numpagefaults

\* C9: numpgwriteback grows by exactly 1 at the eviction of a page that was
\* written since it was installed, and changes at no other point.
C9_WriteBack ==
  [][CallStep =>
       S'.numpgwriteback =
          S.numpgwriteback + (IF \E p \in Evicted : written[p] THEN 1 ELSE 0)]_vars

\* C10: right after an eviction the victim is absent with frame = -1 and
\* modified = 0, in FIFO and in LRU alike.
C10_VictimReset ==
  [][CallStep =>
       \A p \in Evicted : /\ S'.pgt[p].present = 0
                          /\ S'.pgt[p].frame = -1
                          /\ S'.pgt[p].modified = 0]_vars


\* C11: in LRU the overflow warning is printed by exactly the references
\* that wrap the clock from the maximum to 0; such a call still counts the
\* reference, sets the timestamp (and `modified` on a write), returns, and
\* leaves the simulation running: sim_mmu can be called again.
C11_OverflowWarning ==
  [][(CallStep /\ ReturnedNext) =>
       LET page == PageOf(S, last'.va)
           wraps == /\ variant = "LRU" /\ ~IsIllegal(S, last'.va)
                    /\ S.clock = UMax /\ S'.clock = 0
       IN  /\ last'.warned <=> wraps
           /\ wraps =>
                /\ S'.numrefsread + S'.numrefswrite
                     = S.numrefsread + S.numrefswrite + 1
                /\ S'.pgt[page].timestamp = UMax
                /\ S'.numrefswrite > S.numrefswrite => S'.pgt[page].modified = 1
                /\ Running'
                /\ cnt'.calls < MaxCalls => (CanCall' /\ IsHit(S', last'.va))]_vars

\* C11 witness: the write that wrapped the clock was reported and counted.
C11_Witness ==
  /\ variant = "LRU" /\ last.warned /\ S.clock = 0
  /\ S.pgt[last.page].timestamp = UMax /\ S.pgt[last.page].modified = 1
  /\ S.numrefsread + S.numrefswrite = UMax + 1


\* What a call of sim_mmu can end in, over what the memory outside the
\* tables holds and over whether an access to it ends the process: the
\* system it leaves and the value it returns.
Outcomes(va, op) ==
  {IF OutOfBounds(variant, S, va) /\ j.abort
     THEN [died |-> TRUE, sys |-> [S EXCEPT !.numpagefaults = @ + 1], ret |-> -1]
     ELSE LET r == sim_mmu(variant, S, va, op, j)
          IN  [died |-> FALSE, sys |-> r.sys, ret |-> r.ret]
   : j \in Junk(S)}

\* C12: runs with the same configuration and the same events go through the
\* same states and return the same addresses: in every reachable state an
\* event has one outcome (tables, lists, clock, counters, returned address).
C12_Deterministic ==
  Running => \A va \in VAddrs, op \in Ops : Cardinality(Outcomes(va, op)) = 1


\* C13: in LRU the timestamp of every present page is the clock value of the
\* most recent reference to it (the value before that reference's
\* increment); an in-range call sets the timestamp of the referenced page
\* only.
C13_Timestamps ==
  [][(CallStep /\ variant = "LRU") =>
       /\ \A p \in PresentPages(S') : S'.pgt[p].timestamp = refAt'[p]
       /\ (ReturnedNext /\ ~IsIllegal(S, last'.va)) =>
            LET page == PageOf(S, last'.va)
            IN  /\ S'.pgt[page].timestamp = S.clock
                /\ \A q \in Pages(S) \ {page} :
                      S'.pgt[q].timestamp = S.pgt[q].timestamp]_vars

\* C13 witness: two pages in memory, the one installed first referenced
\* again after the other.
C13_Witness ==
  /\ variant = "LRU" /\ last.kind = "hit" /\ last.page = 0
  /\ S.numpags >= 2 /\ Present(S, 0) /\ Present(S, 1)
  /\ S.pgt[0].timestamp = 2 /\ S.pgt[1].timestamp = 1 /\ S.clock = 3


\* C14: a present page has modified set if and only if it received a 'W'
\* reference since it was last installed in a frame.
C14_ModifiedIffWritten ==
  \A p \in PresentPages(S) : (S.pgt[p].modified # 0) <=> written[p]

\* C14 witness: after an eviction, the page installed by it has been written
\* and another page in memory has only been read.
C14_Witness ==
  /\ S.numpagefaults > S.numframes /\ ub = "no"
  /\ \E p, q \in PresentPages(S) :
        /\ written[p] /\ S.pgt[p].modified = 1 /\ instAt[p] > S.numframes
        /\ ~written[q] /\ S.pgt[q].modified = 0


\* C15: a frame never goes from occupied back to free: an occupied frame
\* stays occupied, the free list never gains a member, listfree stays -1
\* once it is -1, and replace_page runs only when the free list is empty.
C15_NeverFreed ==
  [][CallStep =>
       /\ Occupied(S) \subseteq Occupied(S')
       /\ FreeList(S') \subseteq FreeList(S)
       /\ S.listfree = -1 => S'.listfree = -1
       /\ last'.kind \in {"evict", "abort"} =>
            (S.listfree = -1 /\ FreeList(S) = {})]_vars

\* C15 witness: an eviction has just reused one of two frames, both still
\* occupied and none free.
C15_Witness ==
  /\ last.kind = "evict" /\ S.numframes = 2
  /\ Occupied(S) = Frames(S) /\ S.listfree = -1 /\ FreeList(S) = {}


\* C16: when every call made so far has returned, numrefsread is the number
\* of in-range 'R' calls, numrefswrite the number of in-range 'W' calls,
\* numillegalrefs the number of out-of-range calls and numpagefaults the
\* number of in-range calls whose page was absent; reads + writes + illegal
\* references is the number of calls.
C16_Counters ==
  Running =>
    /\ S.numrefsread = cnt.r
    /\ S.numrefswrite = cnt.w
    /\ S.numillegalrefs = cnt.ill
    /\ S.numpagefaults = cnt.flt
    /\ S.numrefsread + S.numrefswrite + S.numillegalrefs = cnt.calls

\* C16 witness: reads, writes, illegal references, hits and faults have all
\* happened.
C16_Witness ==
  /\ Running /\ cnt.calls = MaxCalls
  /\ S.numrefsread >= 1 /\ S.numrefswrite >= 2 /\ S.numillegalrefs = 1
  /\ S.numpagefaults = 2


\* C17: in FIFO the circular list of listoccupied holds exactly the occupied
\* frames, each once, in the order their current pages were installed: the
\* frame after listoccupied holds the oldest page and listoccupied the
\* newest; listoccupied is -1 exactly when no frame is occupied.
C17_FifoRingOrder ==
  variant = "FIFO" =>
    LET order == OccupiedOrder(S)
        n == Len(order)
    IN  /\ (S.listoccupied = -1) <=> (Occupied(S) = {})
        /\ OccupiedList(S) = Occupied(S)
        /\ {order[i] : i \in 1..n} = Occupied(S)
        /\ n > 0 => /\ order[n] = S.listoccupied
                    /\ S.frt[order[n]].next = order[1]
        /\ \A i, j \in 1..n :
              i < j => instAt[S.frt[order[i]].page] < instAt[S.frt[order[j]].page]

\* C17 witness: two frames, the first reused by an eviction, so the list
\* runs from frame 1 (oldest page) to frame 0 (newest page).
C17_Witness ==
  /\ variant = "FIFO" /\ S.numframes = 2 /\ last.kind = "evict"
  /\ S.listoccupied = 0 /\ OccupiedOrder(S) = <<1, 0>>
  /\ instAt[S.frt[1].page] = 2 /\ instAt[S.frt[0].page] = 3


\* C18: a call on an in-range page that is present changes only the read or
\* the write counter, the modified flag of that page on 'W', and in LRU the
\* timestamp of that page and the clock; the present flags, the frame
\* fields, the frame table with its links, listfree, listoccupied,
\* numpagefaults and numpgwriteback are unchanged, and so is the FIFO
\* eviction order.
C18_HitFrame ==
  [][(CallStep /\ IsHit(S, last'.va)) =>
       LET page == PageOf(S, last'.va)
           write == S'.numrefswrite # S.numrefswrite
           T1 == IF write THEN [S EXCEPT !.numrefswrite = @ + 1,
                                         !.pgt[page].modified = 1]
                          ELSE [S EXCEPT !.numrefsread = @ + 1]
           T2 == IF variant = "LRU"
                   THEN [T1 EXCEPT !.pgt[page].timestamp = S.clock,
                                   !.clock = ToUnsigned(S.clock + 1)]
                   ELSE T1
       IN  /\ S' = T2
           /\ last'.kind = "hit"
           /\ variant = "FIFO" =>
                /\ OccupiedOrder(S') = OccupiedOrder(S)
                /\ choose_page_to_be_replaced_fifo(S') =
                     choose_page_to_be_replaced_fifo(S)]_vars

\* C18 witness: in FIFO with two pages in memory the one installed first has
\* just been written by a hit, and its frame is still the next to be reused.
C18_Witness ==
  /\ variant = "FIFO" /\ last.kind = "hit" /\ S.numframes = 2
  /\ Occupied(S) = Frames(S)
  /\ S.pgt[last.page].modified = 1 /\ written[last.page]
  /\ last.frame # S.listoccupied
  /\ choose_page_to_be_replaced_fifo(S) = last.page


Min(a, b) == IF a < b THEN a ELSE b
Max(a, b) == IF a > b THEN a ELSE b

\* C19: the number of present pages is min(numpagefaults, numframes), the
\* number of free frames is max(0, numframes - numpagefaults), and
\* numpgwriteback is at most max(0, numpagefaults - numframes).
C19_Counts ==
  /\ Cardinality(PresentPages(S)) = Min(S.numpagefaults, S.numframes)
  /\ Cardinality(FreeList(S)) = Max(0, S.numframes - S.numpagefaults)
  /\ Cardinality(Frames(S) \ Occupied(S)) = Max(0, S.numframes - S.numpagefaults)
  /\ S.numpgwriteback <= Max(0, S.numpagefaults - S.numframes)


\* C20: free frames are handed out in ascending order from frame 0 in both
\* variants, and in FIFO the k-th page fault since init_tables installs its
\* page in frame (k - 1) mod numframes.
C20_FrameOrder ==
  /\ last.kind = "free" => last.frame = S.numpagefaults - 1
  /\ \A p \in PresentPages(S) :
        instAt[p] <= S.numframes => S.pgt[p].frame = instAt[p] - 1
  /\ variant = "FIFO" =>
       /\ last.kind \in {"free", "evict"} =>
            last.frame = (S.numpagefaults - 1) % S.numframes
       /\ \A p \in PresentPages(S) :
             S.pgt[p].frame = (instAt[p] - 1) % S.numframes

\* C20 witness: in FIFO with two frames the fourth page fault has just put
\* its page in frame 1.
C20_Witness ==
  /\ variant = "FIFO" /\ S.numframes = 2 /\ S.numpagefaults = 4
  /\ last.kind = "evict" /\ last.frame = 1 /\ S.pgt[last.page].frame = 1


====
